---- MODULE Spec2Model ----
(***************************************************************************)
(* Model of the recipe backend (src/main.py): the diagnostics endpoint     *)
(* test_database, the filename-keyword resolver recipe_from_image and the  *)
(* ingredient-overlap matcher recipes_from_ingredients, with the           *)
(* best-effort write each of the two recipe handlers makes.                *)
(*                                                                         *)
(* Strings the program transforms (strip, lower, substring search) are     *)
(* sequences of characters, one character per one-element string.  Module  *)
(* strings are ASCII, so a non-ASCII letter is written as a named          *)
(* character of its own ("o_acute" for o-acute, "l_stroke" for l-stroke,   *)
(* "z_dot" for z-dot, upper-case forms in capitals): it stays distinct     *)
(* from the plain letter, as in the program.  Strings the program only     *)
(* passes through (titles, steps, template ingredients, status texts) are  *)
(* atoms, written without diacritics and pictographs.                      *)
(***************************************************************************)
EXTENDS Integers, Sequences, FiniteSets, TLC

VARIABLES
    handler,      \* the endpoint serving the current request ("none" before any)
    pc,           \* "idle" | "persist" (about to call create_document) | "done"
    filename,     \* recipe_from_image: file.filename
    payload,      \* recipes_from_ingredients: payload.ingredients
    user_ings,    \* recipes_from_ingredients: the normalized ingredient list
    scored,       \* recipes_from_ingredients: sorted (overlap, recipe) pairs
    results,      \* recipes_from_ingredients: the recipes selected
    recipe,       \* recipe_from_image: the Recipe built from the guess
    doc_id,       \* recipe_from_image: what create_document returned, or None
    attempts,     \* create_document calls made by the current request
    raised,       \* whether create_document raised in the current request
    last_doc,     \* the argument of the request's create_document call
    db_docs,      \* documents the persistence layer holds
    db,           \* test_database: the datastore as the probe finds it
    response      \* what the handler answered

vars == <<handler, pc, filename, payload, user_ings, scored, results, recipe,
          doc_id, attempts, raised, last_doc, db_docs, db, response>>

(***************************************************************************)
(* Bounds of the model.                                                    *)
(***************************************************************************)
MaxIngredients == 3
MaxParts == 2
MaxDocs == 2
MaxCollections == 11
MaxErrLen == 51

None == "None"
\* An absent filename: a value no character sequence equals.
NoFilename == <<"None">>

(***************************************************************************)
(* Characters: str.lower and str.strip                                     *)
(***************************************************************************)
UpperChars ==
    <<"A", "B", "C", "D", "E", "F", "G", "H", "I", "J", "K", "L", "M", "N", "O", "P",
      "Q", "R", "S", "T", "U", "V", "W", "X", "Y", "Z", "O_ACUTE", "L_STROKE", "Z_DOT">>
LowerChars ==
    <<"a", "b", "c", "d", "e", "f", "g", "h", "i", "j", "k", "l", "m", "n", "o", "p",
      "q", "r", "s", "t", "u", "v", "w", "x", "y", "z", "o_acute", "l_stroke", "z_dot">>

\* the lower-case form of each upper-case character
LowerOf ==
    [c \in {UpperChars[i] : i \in DOMAIN UpperChars} |->
        LowerChars[CHOOSE i \in DOMAIN UpperChars : UpperChars[i] = c]]

LowerChar(c) == IF c \in DOMAIN LowerOf THEN LowerOf[c] ELSE c

\* str.lower()
lower(s) == [i \in 1..Len(s) |-> LowerChar(s[i])]

\* The characters str.strip() removes that the inputs of the model use.
Whitespace == {" ", "\t", "\n"}

\* leading whitespace removed
RECURSIVE lstrip(_)
lstrip(s) == IF s # <<>> /\ Head(s) \in Whitespace THEN lstrip(Tail(s)) ELSE s

\* trailing whitespace removed
RECURSIVE rstrip(_)
rstrip(s) ==
    IF s # <<>> /\ s[Len(s)] \in Whitespace THEN rstrip(SubSeq(s, 1, Len(s) - 1)) ELSE s

\* str.strip(): whitespace removed at both ends
strip(s) == rstrip(lstrip(s))

\* k in s, for strings
Contains(s, k) ==
    \E i \in 0..(Len(s) - Len(k)) : SubSeq(s, i + 1, i + Len(k)) = k

SetOf(seq) == {seq[i] : i \in DOMAIN seq}

SeqsUpTo(S, n) == UNION {[1..k -> S] : k \in 0..n}

(***************************************************************************)
(* The strings of the catalog and of the keyword tables                    *)
(***************************************************************************)
makaron == <<"m", "a", "k", "a", "r", "o", "n">>
czosnek == <<"c", "z", "o", "s", "n", "e", "k">>
oliwa_z_oliwek == <<"o", "l", "i", "w", "a", " ", "z", " ", "o", "l", "i", "w", "e", "k">>
pietruszka == <<"p", "i", "e", "t", "r", "u", "s", "z", "k", "a">>
papryczka_chili ==
    <<"p", "a", "p", "r", "y", "c", "z", "k", "a", " ", "c", "h", "i", "l", "i">>
sol == <<"s", "o_acute", "l">>
pomidor == <<"p", "o", "m", "i", "d", "o", "r">>
ogorek == <<"o", "g", "o_acute", "r", "e", "k">>
cebula_czerwona ==
    <<"c", "e", "b", "u", "l", "a", " ", "c", "z", "e", "r", "w", "o", "n", "a">>
ser_feta == <<"s", "e", "r", " ", "f", "e", "t", "a">>
oliwki == <<"o", "l", "i", "w", "k", "i">>
oliwa == <<"o", "l", "i", "w", "a">>
oregano == <<"o", "r", "e", "g", "a", "n", "o">>
kurczak == <<"k", "u", "r", "c", "z", "a", "k">>
cebula == <<"c", "e", "b", "u", "l", "a">>
imbir == <<"i", "m", "b", "i", "r">>
pasta_curry == <<"p", "a", "s", "t", "a", " ", "c", "u", "r", "r", "y">>
mleczko_kokosowe ==
    <<"m", "l", "e", "c", "z", "k", "o", " ", "k", "o", "k", "o", "s", "o", "w", "e">>
ryz == <<"r", "y", "z_dot">>

kw_pizza == <<"p", "i", "z", "z", "a">>
kw_margherita == <<"m", "a", "r", "g", "h", "e", "r", "i", "t", "a">>
kw_salad == <<"s", "a", "l", "a", "d">>
kw_salat == <<"s", "a", "l", "a", "t">>
kw_salat_pl == <<"s", "a", "l_stroke", "a", "t">>

(***************************************************************************)
(* recipes_from_ingredients: the catalog and the matching                  *)
(***************************************************************************)
catalog ==
    << [title |-> "Spaghetti aglio e olio",
        ingredients |-> <<makaron, czosnek, oliwa_z_oliwek, pietruszka,
                          papryczka_chili, sol>>,
        steps |-> <<"Ugotuj makaron al dente.",
                    "Na oliwie podsmaz czosnek i chili.",
                    "Wymieszaj z makaronem i posiekana pietruszka, dopraw.">>,
        source |-> "seed", image_filename |-> None],
       [title |-> "Salatka grecka",
        ingredients |-> <<pomidor, ogorek, cebula_czerwona, ser_feta, oliwki,
                          oliwa, oregano, sol>>,
        steps |-> <<"Warzywa pokroj w kostke.",
                    "Dodaj fete i oliwki, skrop oliwa, posyp oregano.",
                    "Dopraw sola i delikatnie wymieszaj.">>,
        source |-> "seed", image_filename |-> None],
       [title |-> "Kurczak curry",
        ingredients |-> <<kurczak, cebula, czosnek, imbir, pasta_curry,
                          mleczko_kokosowe, ryz, sol>>,
        steps |-> <<"Podsmaz cebule, czosnek i imbir.",
                    "Dodaj kurczaka i paste curry, smaz chwile.",
                    "Wlej mleczko kokosowe i dus do miekkosci. Podawaj z ryzem.">>,
        source |-> "seed", image_filename |-> None] >>

normalize_keep_blanks(ingredients) ==
    [k \in 1..Len(ingredients) |-> lower(strip(ingredients[k]))]
normalize_no_lower(ingredients) ==
    LET kept == SelectSeq(ingredients, LAMBDA i : strip(i) # <<>>)
    IN  [k \in 1..Len(kept) |-> strip(kept[k])]
\* [i.strip().lower() for i in payload.ingredients if i.strip()]
normalize(ingredients) ==
    LET kept == SelectSeq(ingredients, LAMBDA i : strip(i) # <<>>)
    IN  [k \in 1..Len(kept) |-> lower(strip(kept[k]))]

\* r_ings = [i.lower() for i in r.ingredients]
r_ings_of(r) == [k \in 1..Len(r.ingredients) |-> lower(r.ingredients[k])]

\* overlap = len(set(user_ings) & set(r_ings))
overlap_of(ings, r) == Cardinality(SetOf(ings) \cap SetOf(r_ings_of(r)))

\* the loop appending (overlap, r) for r in catalog
score_all(ings) == [k \in 1..Len(catalog) |-> <<overlap_of(ings, catalog[k]), catalog[k]>>]

RECURSIVE sort_ties_reversed(_)
sort_ties_reversed(s) ==
    IF s = <<>> THEN <<>>
    ELSE LET rest == sort_ties_reversed(SubSeq(s, 1, Len(s) - 1))
             x == s[Len(s)]
             n == Cardinality({i \in DOMAIN rest : rest[i][1] > x[1]})
         IN  SubSeq(rest, 1, n) \o <<x>> \o SubSeq(rest, n + 1, Len(rest))
\* scored.sort(key=lambda x: x[0], reverse=True): descending by overlap, and
\* stable (entries of equal overlap keep their order), reverse=True included.
RECURSIVE sort_by_score_desc(_)
sort_by_score_desc(s) ==
    IF s = <<>> THEN <<>>
    ELSE LET rest == sort_by_score_desc(SubSeq(s, 1, Len(s) - 1))
             x == s[Len(s)]
             n == Cardinality({i \in DOMAIN rest : rest[i][1] >= x[1]})
         IN  SubSeq(rest, 1, n) \o <<x>> \o SubSeq(rest, n + 1, Len(rest))

qualifies_one_always(n, score) == score >= 1
\* (len(user_ings) == 1 and score >= 1) or (len(user_ings) > 1 and score >= 2)
qualifies(n, score) == (n = 1 /\ score >= 1) \/ (n > 1 /\ score >= 2)

\* results = [r for score, r in scored if ...]
select(ings, sc) ==
    LET kept == SelectSeq(sc, LAMBDA p : qualifies(Len(ings), p[1]))
    IN  [k \in 1..Len(kept) |-> kept[k][2]]

\* if not results and scored: results = [scored[0][1]]
with_fallback(res, sc) == IF res = <<>> /\ sc # <<>> THEN <<sc[1][2]>> ELSE res

\* scored after the loop and the sort
scored_for(ings) == sort_by_score_desc(score_all(ings))

\* results after the selection and the fallback
results_for(ings) ==
    LET sc == scored_for(ings)
    IN  with_fallback(select(ings, sc), sc)

\* the list the handler returns
public_list(res) ==
    [k \in 1..Len(res) |-> [title |-> res[k].title,
                            ingredients |-> res[k].ingredients,
                            steps |-> res[k].steps]]

\* the record handed to create_document("recipe_query", ...)
query_doc(ings, res) ==
    [kind |-> "recipe_query", ingredients |-> ings,
     matches |-> [k \in 1..Len(res) |-> res[k].title]]

(***************************************************************************)
(* recipe_from_image: the keyword tables and the three templates           *)
(***************************************************************************)
pizza_keywords == <<kw_pizza, kw_margherita>>
salad_keywords_short == <<kw_salad>>
salad_keywords == <<kw_salad, kw_salat, kw_salat_pl>>

\* any(k in name_lower for k in keys)
any_in(keys, name_lower) == \E k \in SetOf(keys) : Contains(name_lower, k)

pizza_template ==
    [title |-> "Domowa pizza margherita",
     ingredients |-> <<"Ciasto do pizzy", "Sos pomidorowy", "Mozzarella",
                       "Swieza bazylia", "Oliwa z oliwek", "Sol, pieprz">>,
     steps |-> <<"Rozgrzej piekarnik do 250 C.",
                 "Rozwalkuj ciasto, posmaruj sosem.",
                 "Dodaj plastry mozzarelli i listki bazylii.",
                 "Skrop oliwa i dopraw.",
                 "Piec 8-12 minut do zrumienienia.">>]

salad_template ==
    [title |-> "Kolorowa salatka warzywna",
     ingredients |-> <<"Miks salat", "Pomidor", "Ogorek", "Czerwona cebula",
                       "Oliwa, sok z cytryny", "Sol, pieprz">>,
     steps |-> <<"Warzywa pokroj w kostke.",
                 "Wymieszaj z miksem salat.",
                 "Skrop oliwa i sokiem z cytryny, dopraw do smaku.">>]

generic_template ==
    [title |-> "Prosty przepis na rozpoznane danie",
     ingredients |-> <<"Podstawowe warzywa (np. cebula, czosnek)",
                       "Glowny skladnik (np. kurczak/warzywa/makaron)",
                       "Przyprawy (sol, pieprz, papryka)",
                       "Tluszcz do smazenia",
                       "Dodatek (np. ryz/makaron/pieczywo)">>,
     steps |-> <<"Przygotuj skladniki: pokroj warzywa i glowny skladnik.",
                 "Podsmaz na rozgrzanym tluszczu, dopraw do smaku.",
                 "Dus lub piecz do miekkosci.",
                 "Podawaj z wybranym dodatkiem.">>]

no_filename_absent_only(f) == f = NoFilename
\* not filename
no_filename(f) == f = NoFilename \/ f = <<>>

guess_salad_first(f) ==
    LET name_lower == lower(f)
    IN  IF any_in(salad_keywords, name_lower) THEN salad_template
        ELSE IF any_in(pizza_keywords, name_lower) THEN pizza_template
        ELSE generic_template
\* the if / elif / else on name_lower = filename.lower()
guess(f) ==
    LET name_lower == lower(f)
    IN  IF any_in(pizza_keywords, name_lower) THEN pizza_template
        ELSE IF any_in(salad_keywords, name_lower) THEN salad_template
        ELSE generic_template

\* Recipe(title=..., ingredients=..., steps=..., source="image", image_filename=filename)
image_recipe(f) ==
    LET g == guess(f)
    IN  [title |-> g.title, ingredients |-> g.ingredients, steps |-> g.steps,
         source |-> "image", image_filename |-> f]

\* the body recipe_from_image returns
image_body(id, r) ==
    [id |-> id, title |-> r.title, ingredients |-> r.ingredients, steps |-> r.steps]

\* the id create_document returns for the n-th document stored
new_id(n) == ToString(n)

(***************************************************************************)
(* test_database                                                           *)
(***************************************************************************)
first_ten_all(c) == c
\* collections[:10]
first_ten(c) == SubSeq(c, 1, IF Len(c) < 10 THEN Len(c) ELSE 10)

\* str(e)[:50]
first_fifty(msg) == SubSeq(msg, 1, IF Len(msg) < 50 THEN Len(msg) ELSE 50)

\* The report for a datastore d; d.kind says what the probe meets:
\*   "none"          db is None
\*   "ok"            db.list_collection_names() returns d.collections
\*   "list_raises"   db.list_collection_names() raises an error of text d.msg
\*   "probe_raises"  reading db.name raises an error of text d.msg
database_report(d, url_set, name_set) ==
    LET r0 == [backend |-> "Running",
               database |-> [text |-> "Not Available", detail |-> <<>>],
               database_url |-> None,
               database_name |-> None,
               connection_status |-> "Not Connected",
               collections |-> <<>>]
        \* lines 39-40
        r1 == [r0 EXCEPT !.database = [text |-> "Available", detail |-> <<>>],
                         !.database_url = "Configured"]
        \* lines 41-42
        r2 == [r1 EXCEPT !.database_name = "Connected",
                         !.connection_status = "Connected"]
        r3 == CASE d.kind = "none" ->
                     [r0 EXCEPT !.database =
                         [text |-> "Available but not initialized", detail |-> <<>>]]
                [] d.kind = "probe_raises" ->
                     [r1 EXCEPT !.database =
                         [text |-> "Error: ", detail |-> first_fifty(d.msg)]]
                [] d.kind = "list_raises" ->
                     [r2 EXCEPT !.database =
                         [text |-> "Connected but Error: ", detail |-> first_fifty(d.msg)]]
                [] d.kind = "ok" ->
                     [r2 EXCEPT !.collections = first_ten(d.collections),
                                !.database =
                         [text |-> "Connected & Working", detail |-> <<>>]]
    IN  [r3 EXCEPT !.database_url = IF url_set THEN "Set" ELSE "Not Set",
                   !.database_name = IF name_set THEN "Set" ELSE "Not Set"]

(***************************************************************************)
(* The requests the model sends                                            *)
(***************************************************************************)
IngredientInputs ==
    { <<>>,
      <<" ", "\t">>,
      makaron,
      <<" ", "C", "Z", "O", "S", "N", "E", "K", "\t">>,
      pomidor,
      ogorek,
      oliwa,
      <<"S", "O_ACUTE", "L">>,
      <<"x", "y", "z">> }

Payloads == SeqsUpTo(IngredientInputs, MaxIngredients)

FilenameParts ==
    { kw_pizza,
      <<"P", "I", "Z", "Z", "A">>,
      <<"M", "a", "r", "g", "h", "e", "r", "i", "t", "a">>,
      kw_salad,
      <<"S", "A", "L", "A", "T">>,
      <<"S", "a", "L_STROKE", "a", "t">>,
      <<"p", "i", "z">>,
      <<"i", "m", "g">>,
      <<".", "j", "p", "g">> }

RECURSIVE Concat(_)
Concat(ps) == IF ps = <<>> THEN <<>> ELSE ps[1] \o Concat(Tail(ps))

Filenames == {NoFilename} \cup {Concat(ps) : ps \in SeqsUpTo(FilenameParts, MaxParts)}

NoDatastore == [kind |-> "unprobed", collections |-> <<>>, msg |-> <<>>]

Datastores ==
    {[kind |-> "none", collections |-> <<>>, msg |-> <<>>]}
    \cup {[kind |-> "ok", collections |-> [i \in 1..n |-> ToString(i)], msg |-> <<>>] :
            n \in 0..MaxCollections}
    \cup {[kind |-> k, collections |-> <<>>, msg |-> [i \in 1..n |-> "e"]] :
            k \in {"list_raises", "probe_raises"}, n \in 0..MaxErrLen}

(***************************************************************************)
(* The state machine                                                       *)
(***************************************************************************)
NoResponse == [status |-> 0, detail |-> "", body |-> <<>>]

Ok(body) == [status |-> 200, detail |-> "", body |-> body]

\* raise HTTPException(status_code=400, detail=...)
BadRequest(detail) == [status |-> 400, detail |-> detail, body |-> <<>>]

\* an exception leaving a handler: the framework answers 500
ServerError == [status |-> 500, detail |-> "Internal Server Error", body |-> <<>>]

NoRecipe == [title |-> "", ingredients |-> <<>>, steps |-> <<>>,
             source |-> None, image_filename |-> NoFilename]

NoDoc == [kind |-> "none"]

Init ==
    /\ handler = "none"
    /\ pc = "idle"
    /\ filename = NoFilename
    /\ payload = <<>>
    /\ user_ings = <<>>
    /\ scored = <<>>
    /\ results = <<>>
    /\ recipe = NoRecipe
    /\ doc_id = None
    /\ attempts = 0
    /\ raised = FALSE
    /\ last_doc = NoDoc
    /\ db_docs = 0
    /\ db = NoDatastore
    /\ response = NoResponse

\* A request starts with locals of its own.
FreshImageLocals == filename' = NoFilename /\ recipe' = NoRecipe /\ doc_id' = None
FreshIngredientLocals ==
    payload' = <<>> /\ user_ings' = <<>> /\ scored' = <<>> /\ results' = <<>>
FreshWrite == attempts' = 0 /\ raised' = FALSE /\ last_doc' = NoDoc

\* The framework dispatches a request when the last one has been answered.
Ready == pc = "idle"

\* The response is sent and the handler's frame is gone; what stays is what
\* the persistence layer holds.
request_done ==
    /\ pc = "done"
    /\ pc' = "idle"
    /\ handler' = "none"
    /\ response' = NoResponse
    /\ FreshImageLocals /\ FreshIngredientLocals /\ FreshWrite
    /\ db' = NoDatastore
    /\ UNCHANGED db_docs

read_root ==
    /\ Ready
    /\ handler' = "read_root"
    /\ pc' = "done"
    /\ response' = Ok([message |-> "Recipe AI backend ready"])
    /\ FreshImageLocals /\ FreshIngredientLocals /\ FreshWrite
    /\ db' = NoDatastore
    /\ UNCHANGED db_docs

test_database ==
    /\ Ready
    /\ \E d \in Datastores, url_set \in BOOLEAN, name_set \in BOOLEAN :
          /\ db' = d
          /\ response' = Ok(database_report(d, url_set, name_set))
    /\ handler' = "test_database"
    /\ pc' = "done"
    /\ FreshImageLocals /\ FreshIngredientLocals /\ FreshWrite
    /\ UNCHANGED db_docs

\* lines 69-71: no filename, HTTP 400
recipe_from_image_no_file ==
    /\ Ready
    /\ \E f \in Filenames :
          /\ no_filename(f)
          /\ filename' = f
    /\ handler' = "recipe_from_image"
    /\ pc' = "done"
    /\ response' = BadRequest("No file uploaded")
    /\ recipe' = NoRecipe /\ doc_id' = None
    /\ FreshIngredientLocals /\ FreshWrite
    /\ db' = NoDatastore
    /\ UNCHANGED db_docs

\* lines 69-132: the guess and the Recipe built from it
recipe_from_image_guess ==
    /\ Ready
    /\ db_docs < MaxDocs
    /\ \E f \in Filenames :
          /\ ~no_filename(f)
          /\ filename' = f
          /\ recipe' = image_recipe(f)
    /\ handler' = "recipe_from_image"
    /\ pc' = "persist"
    /\ response' = NoResponse
    /\ doc_id' = None
    /\ FreshIngredientLocals /\ FreshWrite
    /\ db' = NoDatastore
    /\ UNCHANGED db_docs

recipe_from_image_raise_propagates ==
    /\ pc = "persist" /\ handler = "recipe_from_image"
    /\ attempts' = attempts + 1
    /\ last_doc' = [kind |-> "recipe", data |-> recipe]
    /\ raised' = TRUE
    /\ doc_id' = None
    /\ response' = ServerError
    /\ pc' = "done"
    /\ UNCHANGED <<handler, filename, payload, user_ings, scored, results, recipe,
                   db_docs, db>>

\* lines 134-144: create_document("recipe", recipe) returns an id
recipe_from_image_stored ==
    /\ pc = "persist" /\ handler = "recipe_from_image"
    /\ attempts' = attempts + 1
    /\ last_doc' = [kind |-> "recipe", data |-> recipe]
    /\ raised' = FALSE
    /\ db_docs' = db_docs + 1
    /\ doc_id' = new_id(db_docs + 1)
    /\ response' = Ok(image_body(new_id(db_docs + 1), recipe))
    /\ pc' = "done"
    /\ UNCHANGED <<handler, filename, payload, user_ings, scored, results, recipe, db>>

\* lines 134-144: create_document("recipe", recipe) raises
recipe_from_image_store_raises ==
    /\ pc = "persist" /\ handler = "recipe_from_image"
    /\ attempts' = attempts + 1
    /\ last_doc' = [kind |-> "recipe", data |-> recipe]
    /\ raised' = TRUE
    /\ doc_id' = None
    /\ response' = Ok(image_body(None, recipe))
    /\ pc' = "done"
    /\ UNCHANGED <<handler, filename, payload, user_ings, scored, results, recipe,
                   db_docs, db>>

\* lines 150-152: nothing left after normalizing, HTTP 400
recipes_from_ingredients_empty ==
    /\ Ready
    /\ \E p \in Payloads :
          /\ normalize(p) = <<>>
          /\ payload' = p
          /\ user_ings' = normalize(p)
    /\ handler' = "recipes_from_ingredients"
    /\ pc' = "done"
    /\ response' = BadRequest("Podaj co najmniej jeden skladnik")
    /\ scored' = <<>> /\ results' = <<>>
    /\ FreshImageLocals /\ FreshWrite
    /\ db' = NoDatastore
    /\ UNCHANGED db_docs

\* lines 150-201: normalize, score, sort, select, fall back
recipes_from_ingredients_match ==
    /\ Ready
    /\ db_docs < MaxDocs
    /\ \E p \in Payloads :
          LET ings == normalize(p)
          IN  /\ ings # <<>>
              /\ payload' = p
              /\ user_ings' = ings
              /\ scored' = scored_for(ings)
              /\ results' = results_for(ings)
    /\ handler' = "recipes_from_ingredients"
    /\ pc' = "persist"
    /\ response' = NoResponse
    /\ FreshImageLocals /\ FreshWrite
    /\ db' = NoDatastore
    /\ UNCHANGED db_docs

\* lines 203-215: create_document("recipe_query", ...) returns
recipes_from_ingredients_logged ==
    /\ pc = "persist" /\ handler = "recipes_from_ingredients"
    /\ attempts' = attempts + 1
    /\ last_doc' = query_doc(user_ings, results)
    /\ raised' = FALSE
    /\ db_docs' = db_docs + 1
    /\ response' = Ok(public_list(results))
    /\ pc' = "done"
    /\ UNCHANGED <<handler, filename, payload, user_ings, scored, results, recipe,
                   doc_id, db>>

\* lines 203-215: create_document("recipe_query", ...) raises
recipes_from_ingredients_log_raises ==
    /\ pc = "persist" /\ handler = "recipes_from_ingredients"
    /\ attempts' = attempts + 1
    /\ last_doc' = query_doc(user_ings, results)
    /\ raised' = TRUE
    /\ response' = Ok(public_list(results))
    /\ pc' = "done"
    /\ UNCHANGED <<handler, filename, payload, user_ings, scored, results, recipe,
                   doc_id, db_docs, db>>

Next ==
    \/ read_root
    \/ test_database
    \/ recipe_from_image_no_file
    \/ recipe_from_image_guess
    \/ recipe_from_image_stored
    \/ recipe_from_image_store_raises
    \/ recipes_from_ingredients_empty
    \/ recipes_from_ingredients_match
    \/ recipes_from_ingredients_logged
    \/ recipes_from_ingredients_log_raises
    \/ request_done

Spec == Init /\ [][Next]_vars

(***************************************************************************)
(* What the claims speak of, stated from the request alone                 *)
(***************************************************************************)
Blank(s) == \A i \in DOMAIN s : s[i] \in Whitespace

Canon(s) == lower(strip(s))

NonBlank(p) == {i \in DOMAIN p : ~Blank(p[i])}

\* the distinct normalized ingredients of a request
UserSet(p) == {Canon(p[i]) : i \in NonBlank(p)}

\* how many normalized ingredients the request supplies, repeats counted
Supplied(p) == Cardinality(NonBlank(p))

\* each catalog recipe's ingredients, lower-cased, as a set
LowerSets ==
    [r \in SetOf(catalog) |-> {lower(r.ingredients[j]) : j \in DOMAIN r.ingredients}]

\* the same, each ingredient trimmed as well
CanonSets ==
    [r \in SetOf(catalog) |-> {Canon(r.ingredients[j]) : j \in DOMAIN r.ingredients}]

OverlapCount(p, r) == Cardinality(UserSet(p) \cap LowerSets[r])

Threshold(p) == IF Supplied(p) = 1 THEN 1 ELSE 2

\* the catalog positions whose recipe meets the threshold
Meets(p) == {k \in DOMAIN catalog : OverlapCount(p, catalog[k]) >= Threshold(p)}

\* the highest-scoring catalog position, the first among equal scores
Best(p) ==
    CHOOSE k \in DOMAIN catalog :
        \A j \in DOMAIN catalog :
            \/ OverlapCount(p, catalog[k]) > OverlapCount(p, catalog[j])
            \/ /\ OverlapCount(p, catalog[k]) = OverlapCount(p, catalog[j])
               /\ k <= j

Titles(rs) == [k \in 1..Len(rs) |-> rs[k].title]

ContentOf(r) == [title |-> r.title, ingredients |-> r.ingredients, steps |-> r.steps]

\* recipes_from_ingredients got past the check of line 151
Matched ==
    /\ handler = "recipes_from_ingredients"
    /\ pc = "persist" \/ (pc = "done" /\ response.status = 200)

\* recipe_from_image got past the check of line 70
Resolved ==
    /\ handler = "recipe_from_image"
    /\ pc = "persist" \/ (pc = "done" /\ response.status = 200)

ContainsAnyCase(s, k) ==
    \E i \in 0..(Len(s) - Len(k)) : \A j \in 1..Len(k) : LowerChar(s[i + j]) = k[j]

HasPizza(f) == ContainsAnyCase(f, kw_pizza) \/ ContainsAnyCase(f, kw_margherita)

HasSalad(f) ==
    \/ ContainsAnyCase(f, kw_salad)
    \/ ContainsAnyCase(f, kw_salat)
    \/ ContainsAnyCase(f, kw_salat_pl)

UpperOf ==
    [c \in {LowerChars[i] : i \in DOMAIN LowerChars} |->
        UpperChars[CHOOSE i \in DOMAIN LowerChars : LowerChars[i] = c]]

UpperChar(c) == IF c \in DOMAIN UpperOf THEN UpperOf[c] ELSE c

\* strings that differ from s only in letter case or in outer whitespace
Variants(s) ==
    { [i \in 1..Len(s) |-> UpperChar(s[i])],
      [i \in 1..Len(s) |-> LowerChar(s[i])],
      <<" ">> \o s,
      s \o <<"\t", " ">> }

(***************************************************************************)
(* The claims                                                              *)
(***************************************************************************)

\* C1: when the normalized ingredient list is non-empty and some catalog
\* recipe meets the threshold (overlap >= 1 for one supplied ingredient,
\* >= 2 for more), the response holds exactly the recipes meeting it, each
\* once, in non-increasing overlap order; pomidor, ogorek, oliwa gives only
\* the Greek salad and makaron gives the spaghetti.
Thm_C1 ==
    LET meets == Meets(payload)
    IN
    (Matched /\ meets # {}) =>
        /\ SetOf(results) = {catalog[k] : k \in meets}
        /\ Len(results) = Cardinality(meets)
        /\ \A i, j \in DOMAIN results :
              i < j => OverlapCount(payload, results[i]) >= OverlapCount(payload, results[j])
        /\ pc = "done" =>
              response.body = [k \in 1..Len(results) |-> ContentOf(results[k])]
        /\ payload = <<pomidor, ogorek, oliwa>> => Titles(results) = <<"Salatka grecka">>
        /\ payload = <<makaron>> => Titles(results) = <<"Spaghetti aglio e olio">>

Wit_C1 ==
    /\ Matched /\ pc = "done"
    /\ payload = <<pomidor, ogorek, oliwa>>
    /\ Titles(response.body) = <<"Salatka grecka">>

\* C2: a successful recipes_from_ingredients never answers an empty list;
\* when no catalog recipe meets the threshold the answer is the one
\* highest-scoring recipe, the first in catalog order among equal scores
\* (the spaghetti when every overlap is 0).
Thm_C2 ==
    Matched =>
        /\ results # <<>>
        /\ pc = "done" => Len(response.body) >= 1
        /\ Meets(payload) = {} =>
              /\ results = <<catalog[Best(payload)]>>
              /\ pc = "done" => response.body = <<ContentOf(catalog[Best(payload)])>>
              /\ (\A k \in DOMAIN catalog : OverlapCount(payload, catalog[k]) = 0)
                    => Titles(results) = <<"Spaghetti aglio e olio">>

Wit_C2 ==
    /\ Matched /\ pc = "done"
    /\ Meets(payload) = {}
    /\ \E k \in DOMAIN catalog : OverlapCount(payload, catalog[k]) > 0
    /\ Len(response.body) = 1

\* C3: recipes_from_ingredients answers HTTP 400 exactly when every input
\* string is blank (the empty list included); then nothing was scored or
\* selected and create_document was not called.
Thm_C3 ==
    handler = "recipes_from_ingredients" =>
        /\ response.status = 400 <=> (\A i \in DOMAIN payload : Blank(payload[i]))
        /\ response.status = 400 =>
              /\ pc = "done"
              /\ attempts = 0
              /\ last_doc = NoDoc
              /\ scored = <<>>
              /\ results = <<>>
              /\ response.body = <<>>

Wit_C3 ==
    /\ handler = "recipes_from_ingredients" /\ pc = "done"
    /\ payload = << <<>>, <<" ", "\t">> >>
    /\ response.status = 400
    /\ db_docs > 0

\* C4: a filename containing "pizza" or "margherita" in any letter case
\* gets the pizza template verbatim (its title, 6 ingredients, 5 steps),
\* also when it contains a salad keyword as well.
Thm_C4 ==
    (handler = "recipe_from_image" /\ HasPizza(filename)) =>
        /\ Resolved
        /\ ContentOf(recipe) = pizza_template
        /\ recipe.title = "Domowa pizza margherita"
        /\ Len(recipe.ingredients) = 6
        /\ Len(recipe.steps) = 5
        /\ pc = "done" => ContentOf(response.body) = pizza_template

Wit_C4 ==
    /\ Resolved /\ pc = "done"
    /\ HasPizza(filename) /\ HasSalad(filename)
    /\ \E i \in DOMAIN filename : filename[i] \in SetOf(UpperChars)
    /\ response.body.title = "Domowa pizza margherita"

\* C5 as stated: a filename containing a salad keyword always gets the salad
\* template, and every other non-empty filename gets the generic template
\* ("every other" taken as every filename with neither a salad keyword nor
\* one of the pizza keywords of C4).
Orig_C5 ==
    Resolved =>
        /\ HasSalad(filename) => ContentOf(recipe) = salad_template
        /\ (~HasSalad(filename) /\ ~HasPizza(filename)) =>
              ContentOf(recipe) = generic_template

\* C5 as amended: a filename containing a salad keyword (any letter case)
\* and no pizza keyword gets the salad template (6 ingredients, 3 steps);
\* a non-empty filename containing neither a pizza nor a salad keyword gets
\* the generic template (5 ingredients, 4 steps).
Thm_C5 ==
    (handler = "recipe_from_image" /\ ~no_filename(filename) /\ ~HasPizza(filename)) =>
        /\ Resolved
        /\ HasSalad(filename) =>
              /\ ContentOf(recipe) = salad_template
              /\ recipe.title = "Kolorowa salatka warzywna"
              /\ Len(recipe.ingredients) = 6 /\ Len(recipe.steps) = 3
              /\ pc = "done" => ContentOf(response.body) = salad_template
        /\ ~HasSalad(filename) =>
              /\ ContentOf(recipe) = generic_template
              /\ recipe.title = "Prosty przepis na rozpoznane danie"
              /\ Len(recipe.ingredients) = 5 /\ Len(recipe.steps) = 4
              /\ pc = "done" => ContentOf(response.body) = generic_template

Wit_C5 ==
    /\ Resolved /\ pc = "done"
    /\ ContainsAnyCase(filename, kw_salat_pl) /\ ~Contains(filename, kw_salat_pl)
    /\ ~HasPizza(filename)
    /\ response.body.title = "Kolorowa salatka warzywna"

\* C6: an empty or absent filename gets HTTP 400 "No file uploaded"; no
\* template was resolved, create_document was not called and no recipe is
\* returned.
Thm_C6 ==
    (handler = "recipe_from_image" /\ (filename = NoFilename \/ filename = <<>>)) =>
        /\ pc = "done"
        /\ response.status = 400
        /\ response.detail = "No file uploaded"
        /\ recipe = NoRecipe
        /\ doc_id = None
        /\ attempts = 0
        /\ last_doc = NoDoc
        /\ response.body = <<>>

Wit_C6 ==
    /\ handler = "recipe_from_image" /\ pc = "done"
    /\ filename = <<>>
    /\ response.status = 400
    /\ db_docs > 0

\* C7: a request calls create_document at most once, and whether the call
\* returns or raises the handler answers 200 with the content the request
\* alone determines: the guessed title, ingredients and steps with id null
\* when it raised, and the same list of matches.
Thm_C7 ==
    /\ attempts <= 1
    /\ (pc = "done" /\ attempts = 1) =>
          /\ response.status = 200
          /\ handler = "recipe_from_image" =>
                /\ ContentOf(response.body) = guess(filename)
                /\ raised => response.body.id = None
                /\ ~raised => response.body.id = new_id(db_docs)
          /\ handler = "recipes_from_ingredients" =>
                response.body = public_list(results_for(normalize(payload)))

Wit_C7 ==
    /\ pc = "done" /\ attempts = 1 /\ raised
    /\ handler = "recipe_from_image"
    /\ response.status = 200
    /\ response.body.id = None
    /\ response.body.title = "Kolorowa salatka warzywna"

\* C8: changing the letter case or the outer whitespace of one ingredient
\* string changes neither the normalized list nor the recipes selected,
\* which are those the normalized list determines, and a recipe's overlap
\* is the number of distinct user ingredients equal to one of its
\* ingredients after trimming and lower-casing both.
Thm_C8 ==
    (handler = "recipes_from_ingredients" /\ pc # "idle") =>
        /\ \A i \in DOMAIN payload : \A v \in Variants(payload[i]) :
              normalize([payload EXCEPT ![i] = v]) = user_ings
        /\ Matched => results = results_for(user_ings)
        /\ \A k \in DOMAIN scored :
              scored[k][1] = Cardinality(UserSet(payload) \cap CanonSets[scored[k][2]])

Wit_C8 ==
    /\ Matched /\ pc = "done"
    /\ payload = << <<" ", "C", "Z", "O", "S", "N", "E", "K", "\t">>, <<"S", "O_ACUTE", "L">> >>
    /\ Titles(response.body) = <<"Spaghetti aglio e olio", "Kurczak curry">>

\* C9: test_database answers 200 whatever the datastore does; its database
\* field tells the state and its collections field holds the first 10 names
\* of the enumeration, or none when the enumeration did not succeed.
Thm_C9 ==
    handler = "test_database" =>
        /\ pc = "done"
        /\ response.status = 200
        /\ Len(response.body.collections) <= 10
        /\ response.body.collections =
              IF db.kind = "ok"
              THEN [i \in 1..(IF Len(db.collections) < 10 THEN Len(db.collections) ELSE 10)
                        |-> db.collections[i]]
              ELSE <<>>
        /\ response.body.database.text =
              CASE db.kind = "none" -> "Available but not initialized"
                [] db.kind = "ok" -> "Connected & Working"
                [] db.kind = "list_raises" -> "Connected but Error: "
                [] db.kind = "probe_raises" -> "Error: "
        /\ Len(response.body.database.detail) <= 50

Wit_C9 ==
    /\ handler = "test_database" /\ pc = "done"
    /\ db.kind = "ok" /\ Len(db.collections) > 10
    /\ Len(response.body.collections) = 10

\* C10: the recipes selected depend only on the set of normalized user
\* ingredients: repeating an ingredient of the request changes neither the
\* threshold nor the sequence of recipes.
Orig_C10 ==
    Matched =>
        \A i \in DOMAIN payload :
            results_for(normalize(Append(payload, payload[i]))) = results

====
